---- MODULE Spec2Model ----
(***************************************************************************)
(* Session lifecycle of the MCP HTTP bridge (lib/server.js): the registry  *)
(* `clients`, the helper startClient, the handlers of /start,              *)
(* /restart/:id, GET /clients, GET /clients/:id/tools,                     *)
(* /clients/:id/call_tools and DELETE /clients/:id, and the SIGINT         *)
(* handlers.  The routes that only answer from memory (GET /clients/:id,   *)
(* /ping, the health routes) are left out.                                 *)
(*                                                                         *)
(* Node runs the handlers on one thread; a handler runs without            *)
(* interruption from one `await` to the next.  Each action below is one    *)
(* such run: the synchronous part of a handler up to its first await, or   *)
(* the continuation that an external event (connect settling, the timer    *)
(* firing, close settling, callTool or listTools settling) resumes.        *)
(*                                                                         *)
(* Spec is the server under requests; FairSpec adds the event loop's       *)
(* fairness; EnvSpec starts and restarts one id over a wider set of        *)
(* configs; RestartSpec takes /start requests one at a time and restarts,  *)
(* with a third client; ShutdownSpec is the server taking /start requests  *)
(* and then SIGINT.                                                        *)
(***************************************************************************)
EXTENDS Integers, Sequences, FiniteSets, TLC

\* ---------------------------------------------------------------- bounds
\* Number of Client objects the model lets startClient construct.
MaxClients == 3
\* Number of them the requests of Spec, EnvSpec and ShutdownSpec construct;
\* RestartSpec, with fewer requests, goes up to MaxClients.
SpecClients == 2
\* Number of close() calls the model lets one Client receive.
MaxCloseCalls == 2

\* ------------------------------------------------------------ the inputs
Ids == {"s1", "s2"}
Batches == {"b1", "b2"}
Reqs == {"r1"}
ToolNames == {"", "echo"}

\* Object.entries() enumerates the ids of a request body in key order.
IdRank(i) == IF i = "s1" THEN 1 ELSE 2

\* The slots of concurrent /start requests are taken in this order.
BatchRank(b) == IF b = "b1" THEN 1 ELSE 2

\* A config is the JSON object of the request body.  env is the list of its
\* properties in insertion order (each key at most once); `omitted` names
\* the properties the caller left out.
cfgArgsSwapped == [command |-> "node", args |-> <<"b", "a">>,
                   env |-> << <<"A", "1">>, <<"B", "2">> >>, omitted |-> {}]
cfgEnv == [command |-> "node", args |-> <<"a", "b">>,
           env |-> << <<"A", "1">>, <<"B", "2">> >>, omitted |-> {}]
cfgEnvReordered == [command |-> "node", args |-> <<"a", "b">>,
                    env |-> << <<"B", "2">>, <<"A", "1">> >>, omitted |-> {}]
cfgNoCommand == [command |-> "", args |-> <<"a", "b">>, env |-> <<>>, omitted |-> {}]
Configs == {cfgEnv, cfgEnvReordered, cfgArgsSwapped, cfgNoCommand}
\* The configs the requests of the model give to an id.
ConfigsFor(i) == IF i = "s1" THEN Configs ELSE {cfgEnv, cfgNoCommand}

NoConfig == [command |-> "", args |-> <<>>, env |-> <<>>, omitted |-> {"args", "env"}]

\* ------------------------------------------------------------- stringify
\* json-stable-stringify: the JSON text with the keys of every object sorted.
\* Two values have the same text iff they agree after sorting object keys, so
\* the text is modelled by the value with env sorted by key.
KeyRank(k) == IF k = "A" THEN 1 ELSE IF k = "B" THEN 2 ELSE IF k = "HOME" THEN 3 ELSE 4

RECURSIVE InsertByKey(_, _)
InsertByKey(p, s) ==
  IF s = <<>> THEN <<p>>
  ELSE IF KeyRank(p[1]) <= KeyRank(Head(s)[1]) THEN <<p>> \o s
       ELSE <<Head(s)>> \o InsertByKey(p, Tail(s))

RECURSIVE SortByKey(_)
SortByKey(s) == IF s = <<>> THEN <<>> ELSE InsertByKey(Head(s), SortByKey(Tail(s)))

\* JSON.stringify, which stringify is not: keys in insertion order.
stringifyUnsorted(config) == config

stringify(config) ==
  [command |-> config.command, args |-> config.args,
   env |-> SortByKey(config.env), omitted |-> config.omitted]

hasConfigChanged(stored, config) == stringify(stored) # stringify(config)

\* -------------------------------------------------- the transport's options
\* getDefaultEnvironment() of the SDK: the variables a child inherits.
getDefaultEnvironment == << <<"HOME", "/root">>, <<"PATH", "/bin">> >>

Keys(e) == {e[k][1] : k \in DOMAIN e}
ValueOf(e, key) == (CHOOSE p \in {e[k] : k \in DOMAIN e} : p[1] = key)[2]

\* {...base, ...e}: the properties of base in their order, each with the
\* value e gives it if e has the key, then the other properties of e.
Spread(base, e) ==
  [k \in DOMAIN base |->
     IF base[k][1] \in Keys(e) THEN <<base[k][1], ValueOf(e, base[k][1])>>
     ELSE base[k]]
  \o SelectSeq(e, LAMBDA p : p[1] \notin Keys(base))

\* An env option that replaces the defaults by the caller's env.
EnvWithoutDefaults(config) ==
  [command |-> config.command, args |-> config.args,
   hasEnv |-> Len(config.env) > 0, env |-> config.env]

\* The options of `new StdioClientTransport({command, args, env})`: env is
\* undefined (hasEnv FALSE) when the caller's env has no values.
TransportOptions(config) ==
  [command |-> config.command, args |-> config.args,
   hasEnv |-> Len(config.env) > 0,
   env |-> IF Len(config.env) > 0 THEN Spread(getDefaultEnvironment, config.env)
           ELSE <<>>]

NoTransport == [command |-> "", args |-> <<>>, hasEnv |-> FALSE, env |-> <<>>]

\* ------------------------------------------------------------- the state
VARIABLES
  clients,     \* the registry: a Map from id to entry
  nextClient,  \* number of Client objects constructed so far
  clientId,    \* clientId[c]: the id Client c was constructed for
  transport,   \* transport[c]: the options of the transport made for c
  conn,        \* conn[c]: state of client.connect(transport)
  timer,       \* timer[c]: the setTimeout of the startClient call that made c
  closeCalls,  \* closeCalls[c]: number of close() calls made on c
  call,        \* call[c]: the promise of the startClient call that made c
  task,        \* task[b][i]: the async callback of /start request b for id i
  results,     \* results[b]: the results object of /start request b
  req,         \* req[r]: a /restart, DELETE, call_tools, tools or listing
               \* request in progress
  proc,        \* the process: running, or where its SIGINT handlers are
  response     \* the HTTP response sent by the step just taken, if any

vars == <<clients, nextClient, clientId, transport, conn, timer, closeCalls,
          call, task, results, req, proc, response>>

ClientIds == 1..MaxClients

\* closed and close: the client the callback called close() on (0: none) and
\* the state of the promise that un-awaited call returned.
NoTask == [pc |-> "none", config |-> NoConfig, client |-> 0, closed |-> 0,
           close |-> "none"]
NoResults == [success |-> <<>>, errors |-> <<>>]
\* client: the client the handler is awaiting; closed: the client of the
\* entry /restart read (0: none), which it keeps in clientEntry.
NoReq == [kind |-> "idle", pc |-> "idle", id |-> "", client |-> 0,
          closed |-> 0, config |-> NoConfig, name |-> "", list |-> << >>]
NoResponse == [kind |-> "none", id |-> "", status |-> 0, error |-> "",
               success |-> <<>>, errors |-> <<>>, result |-> "",
               list |-> << >>, tools |-> <<>>]

\* The process before SIGINT.  id: the entry whose close() the shutdown loop
\* is awaiting; visited: the ids the loop has called close() for.
ProcRunning == [pc |-> "running", id |-> "", visited |-> {}]

Init ==
  /\ clients = << >>
  /\ nextClient = 0
  /\ clientId = [c \in ClientIds |-> ""]
  /\ transport = [c \in ClientIds |-> NoTransport]
  /\ conn = [c \in ClientIds |-> "new"]
  /\ timer = [c \in ClientIds |-> "none"]
  /\ closeCalls = [c \in ClientIds |-> 0]
  /\ call = [c \in ClientIds |-> "none"]
  /\ task = [b \in Batches |-> [i \in Ids |-> NoTask]]
  /\ results = [b \in Batches |-> NoResults]
  /\ req = [r \in Reqs |-> NoReq]
  /\ proc = ProcRunning
  /\ response = NoResponse

\* ------------------------------------------------------------ the registry
has(id) == id \in DOMAIN clients

\* clients.set(id, entry)
MapSet(m, id, entry) ==
  [i \in DOMAIN m \cup {id} |-> IF i = id THEN entry ELSE m[i]]

\* clients.clear()
MapClear(m, id) == << >>

\* clients.delete(id)
MapDelete(m, id) == [i \in DOMAIN m \ {id} |-> m[i]]

\* The entry startClient stores.  createdAt is the time of the clients.set;
\* a client is stored by the one call that constructed it, so the client
\* stands for that time.
Entry(id, c, config) ==
  [id |-> id, client |-> c, command |-> config.command,
   args |-> config.args, env |-> config.env, config |-> config,
   createdAt |-> c]

\* startClient after `await Promise.race`: the entry is stored only when the
\* race was won by connect (RegisterAlways stores it however the race ended).
RegisterAlways(m, id, c, config, outcome) == MapSet(m, id, Entry(id, c, config))

\* A registry in which the first write wins.
RegisterIfAbsent(m, id, c, config, outcome) ==
  IF outcome = "connected" /\ id \notin DOMAIN m
  THEN MapSet(m, id, Entry(id, c, config)) ELSE m

RegistryAfterRace(m, id, c, config, outcome) ==
  IF outcome = "connected" THEN MapSet(m, id, Entry(id, c, config)) ELSE m

\* ------------------------------------------------- startClient, the calls
\* `if (!command) throw new Error('Command is required')`
CommandMissing(config) == config.command = ""

\* The ids of T as Object.entries() lists them.
RECURSIVE SeqOfIds(_)
SeqOfIds(T) ==
  IF T = {} THEN <<>>
  ELSE LET i == CHOOSE x \in T : \A y \in T : IdRank(x) <= IdRank(y)
       IN <<i>> \o SeqOfIds(T \ {i})

\* results.success.push(result), result being startClient's return value
SuccessResult(id) == [id |-> id, message |-> "MCP client started successfully"]

\* results.errors.push({id, error: `Failed to initialize: ${error.message}`})
ErrorResult(id, message) == [id |-> id, error |-> message]

\* The message of the error a lost race throws.
RaceError(outcome) ==
  IF outcome = "timeout" THEN "Connection timeout" ELSE "connect failed"

\* The response of /start once Promise.all(startPromises) has resolved.
BatchResponse(res) ==
  [kind |-> "start", id |-> "",
   status |-> IF Len(res.errors) = 0 THEN 201 ELSE 400,
   error |-> IF Len(res.errors) = 0 THEN "" ELSE "Some MCP clients failed to start",
   success |-> res.success, errors |-> res.errors, result |-> "",
   list |-> << >>, tools |-> <<>>]

\* The response of the other handlers.
Reply(kind, id, status, error) ==
  [kind |-> kind, id |-> id, status |-> status, error |-> error,
   success |-> <<>>, errors |-> <<>>, result |-> "", list |-> << >>,
   tools |-> <<>>]

\* No handler has just written a response: res.json() ends the run of the
\* handler that calls it, and the next event is handled after it.
Ready == response = NoResponse

\* Promise.any in place of Promise.all: resolved by the first callback that
\* returns.
SettledOnFirst(tasks) == \E i \in Ids : tasks[i].pc \in {"ok", "noop"}

\* Promise.all(startPromises) resolves when no callback is awaiting any more.
Settled(tasks) == \A i \in Ids : tasks[i].pc # "racing"

\* /start request b is being handled.
Running(b) == \E i \in Ids : task[b][i].pc = "racing"

\* ------------------------------------------------------------ POST /start
\* The callback of /start for one id, up to its first await.
StartDecision(id, config, closeOutcome) ==
  IF has(id) /\ ~hasConfigChanged(clients[id].config, config) THEN "noop"
  ELSE IF has(id) /\ closeOutcome = "throw" THEN "closeThrew"
  ELSE IF CommandMissing(config) THEN "noCommand"
  ELSE "connect"

\* The promise close() returns when it is called without await, if it
\* returns: one that will resolve or one that will reject.
ClosePromise(closeOutcome) ==
  IF closeOutcome = "throw" THEN "threw"
  ELSE IF closeOutcome = "ok" THEN "resolving" ELSE "rejecting"

\* Whether the callback calls close() on the registered client.
StartCloses(id, config) == has(id) /\ hasConfigChanged(clients[id].config, config)

\* What a failed start does to the results of its /start request: it is
\* collected (not, as in RecordFailureAndRollBack, at the others' expense).
RecordFailureAndRollBack(res, id, message) ==
  [success |-> <<>>, errors |-> Append(res.errors, ErrorResult(id, message))]

RecordFailure(res, id, message) ==
  [res EXCEPT !.errors = Append(@, ErrorResult(id, message))]

\* The callbacks that threw before their first await, recorded in order.
RECURSIVE RecordFailures(_, _, _)
RecordFailures(res, ids, message) ==
  IF ids = <<>> THEN res
  ELSE RecordFailures(RecordFailure(res, Head(ids), message[Head(ids)]),
                      Tail(ids), message)

\* POST /start with body {mcpServers: m}.  The callbacks run one after the
\* other up to their first await (the race in startClient); those that threw
\* before it are caught and recorded before any other event is handled.
\* co[i] is what close() of the registered client does when called without
\* await: return a promise that resolves ("ok") or rejects ("reject", which
\* nothing observes), or throw ("throw", caught by the callback's catch).
BatchStart(b, m, co) ==
  LET S == DOMAIN m
      decision == [i \in S |-> StartDecision(i, m[i], co[i])]
      closing == {i \in S : StartCloses(i, m[i])}
      connecting == {i \in S : decision[i] = "connect"}
      failing == {i \in S : decision[i] \in {"closeThrew", "noCommand"}}
      newClient == [i \in connecting |->
        nextClient + Cardinality({j \in connecting : IdRank(j) <= IdRank(i)})]
      created == {newClient[i] : i \in connecting}
      idOf == [c \in created |-> CHOOSE i \in connecting : newClient[i] = c]
      newTasks == [i \in Ids |->
        IF i \notin S THEN NoTask
        ELSE [pc |-> IF decision[i] = "noop" THEN "noop"
                     ELSE IF decision[i] = "connect" THEN "racing"
                     ELSE "failed",
              config |-> m[i],
              client |-> IF decision[i] = "connect" THEN newClient[i] ELSE 0,
              closed |-> IF i \in closing THEN clients[i].client ELSE 0,
              close |-> IF i \in closing THEN ClosePromise(co[i]) ELSE "none"]]
      message == [i \in failing |->
        IF decision[i] = "closeThrew" THEN "close failed"
        ELSE "Command is required"]
      newResults == RecordFailures(NoResults, SeqOfIds(failing), message)
  IN /\ Ready
     /\ ~Running(b)
     /\ \A b2 \in Batches : BatchRank(b2) < BatchRank(b) => Running(b2)
     /\ nextClient + Cardinality(connecting) <= MaxClients
     /\ \A i \in closing : closeCalls[clients[i].client] < MaxCloseCalls
     /\ closeCalls' = [c \in ClientIds |->
          IF \E i \in closing : clients[i].client = c
          THEN closeCalls[c] + 1 ELSE closeCalls[c]]
     /\ nextClient' = nextClient + Cardinality(connecting)
     /\ clientId' = [c \in ClientIds |->
          IF c \in created THEN idOf[c] ELSE clientId[c]]
     /\ transport' = [c \in ClientIds |->
          IF c \in created THEN TransportOptions(m[idOf[c]]) ELSE transport[c]]
     /\ conn' = [c \in ClientIds |->
          IF c \in created THEN "connecting" ELSE conn[c]]
     /\ timer' = [c \in ClientIds |->
          IF c \in created THEN "armed" ELSE timer[c]]
     /\ call' = [c \in ClientIds |->
          IF c \in created THEN "pending" ELSE call[c]]
     /\ task' = [task EXCEPT ![b] = newTasks]
     /\ results' = [results EXCEPT ![b] = newResults]
     /\ response' = IF Settled(newTasks) THEN BatchResponse(newResults)
                    ELSE NoResponse
     /\ UNCHANGED <<clients, req>>
     /\ UNCHANGED proc

\* The promise of the close() that the callback of /start request b for id i
\* called without await settles.  Nothing awaits it, so nothing else changes.
DetachedCloseSettles(b, i) ==
  /\ Ready
  /\ task[b][i].close \in {"resolving", "rejecting"}
  /\ task' = [task EXCEPT ![b][i].close =
       IF @ = "resolving" THEN "resolved" ELSE "rejected"]
  /\ response' = NoResponse
  /\ UNCHANGED <<clients, nextClient, clientId, transport, conn, timer,
                 closeCalls, call, results, req>>
  /\ UNCHANGED proc

\* ------------------------------------------- the race inside startClient
\* The /start callback awaiting the race on client c, if any.
AwaitingTasks(c) ==
  {t \in Batches \X Ids : task[t[1]][t[2]].pc = "racing" /\ task[t[1]][t[2]].client = c}

\* The /restart request awaiting the race on client c, if any.
AwaitingReqs(c) ==
  {r \in Reqs : req[r].pc = "racing" /\ req[r].client = c}

\* Promise.race settles with `outcome` for the /start callback t on client c:
\* the callback runs to its end, and so does the handler if it was the last.
StartRaceSettles(t, c, outcome) ==
  LET b == t[1]
      i == t[2]
      newTasks == [task[b] EXCEPT
        ![i].pc = IF outcome = "connected" THEN "ok" ELSE "failed"]
      newResults ==
        IF outcome = "connected"
        THEN [results[b] EXCEPT !.success = Append(@, SuccessResult(i))]
        ELSE RecordFailure(results[b], i, RaceError(outcome))
  IN /\ clients' = RegistryAfterRace(clients, i, c, task[b][i].config, outcome)
     /\ task' = [task EXCEPT ![b] = newTasks]
     /\ results' = [results EXCEPT ![b] = newResults]
     /\ response' = IF Settled(newTasks) THEN BatchResponse(newResults)
                    ELSE NoResponse
     /\ UNCHANGED req

\* A restart that rebuilds the config from the entry's fields and loses env.
RestartRaceSettlesWithoutEnv(r, c, outcome) ==
  /\ clients' = RegistryAfterRace(clients, req[r].id, c,
                                  [req[r].config EXCEPT !.env = <<>>], outcome)
  /\ req' = [req EXCEPT ![r] = NoReq]
  /\ response' = IF outcome = "connected"
                 THEN Reply("restart", req[r].id, 200, "")
                 ELSE Reply("restart", req[r].id, 500, RaceError(outcome))
  /\ UNCHANGED <<task, results>>

\* A restart whose startClient call fails and which brings the entry it
\* removed back.
RestartRaceSettlesAndRestores(r, c, outcome) ==
  /\ clients' = IF outcome = "connected"
                THEN RegistryAfterRace(clients, req[r].id, c, req[r].config,
                                       outcome)
                ELSE MapSet(clients, req[r].id,
                            Entry(req[r].id, req[r].closed, req[r].config))
  /\ req' = [req EXCEPT ![r] = NoReq]
  /\ response' = IF outcome = "connected"
                 THEN Reply("restart", req[r].id, 200, "")
                 ELSE Reply("restart", req[r].id, 500, RaceError(outcome))
  /\ UNCHANGED <<task, results>>

\* Promise.race settles for the startClient call of /restart request r.
RestartRaceSettles(r, c, outcome) ==
  /\ clients' = RegistryAfterRace(clients, req[r].id, c, req[r].config, outcome)
  /\ req' = [req EXCEPT ![r] = NoReq]
  /\ response' = IF outcome = "connected"
                 THEN Reply("restart", req[r].id, 200, "")
                 ELSE Reply("restart", req[r].id, 500, RaceError(outcome))
  /\ UNCHANGED <<task, results>>

\* The state of startClient's promise once the race has settled.
CallAfterRace(outcome) ==
  IF outcome = "connected" THEN "fulfilled"
  ELSE IF outcome = "timeout" THEN "timeout" ELSE "rejected"

\* A timeout that takes effect whenever the timer fires: after the race has
\* settled it turns the call into a failure and removes the client's entry.
RaceSettlesOrUnregisters(c, outcome) ==
  IF call[c] # "pending"
  THEN /\ response' = NoResponse
       /\ call' = [call EXCEPT ![c] = IF outcome = "timeout" THEN "timeout" ELSE @]
       /\ clients' = IF /\ outcome = "timeout" /\ has(clientId[c])
                        /\ clients[clientId[c]].client = c
                     THEN MapDelete(clients, clientId[c]) ELSE clients
       /\ UNCHANGED <<task, results, req>>
  ELSE /\ call' = [call EXCEPT ![c] = CallAfterRace(outcome)]
       /\ IF AwaitingTasks(c) # {}
          THEN StartRaceSettles(CHOOSE t \in AwaitingTasks(c) : TRUE, c, outcome)
          ELSE RestartRaceSettles(CHOOSE r \in AwaitingReqs(c) : TRUE, c, outcome)

\* Promise.race settles for the startClient call that constructed c; a race
\* that has settled before stays as it is, and nobody is awaiting it.
RaceSettles(c, outcome) ==
  IF call[c] # "pending"
  THEN /\ response' = NoResponse
       /\ UNCHANGED <<clients, call, task, results, req>>
  ELSE /\ call' = [call EXCEPT ![c] = CallAfterRace(outcome)]
       /\ IF AwaitingTasks(c) # {}
          THEN StartRaceSettles(CHOOSE t \in AwaitingTasks(c) : TRUE, c, outcome)
          ELSE RestartRaceSettles(CHOOSE r \in AwaitingReqs(c) : TRUE, c, outcome)

\* client.connect(transport) resolves or rejects.
ConnectSettles(c, outcome) ==
  /\ Ready
  /\ conn[c] = "connecting"
  /\ conn' = [conn EXCEPT ![c] = outcome]
  /\ RaceSettles(c, outcome)
  /\ UNCHANGED <<nextClient, clientId, timer, closeCalls>>
  /\ UNCHANGED transport
  /\ UNCHANGED proc

\* A timer whose callback does not reject.
TimerFiresSilently(c) ==
  /\ Ready
  /\ timer[c] = "armed"
  /\ timer' = [timer EXCEPT ![c] = "fired"]
  /\ response' = NoResponse
  /\ UNCHANGED <<clients, nextClient, clientId, conn, closeCalls, call, task,
                 results, req>>
  /\ UNCHANGED transport
  /\ UNCHANGED proc

\* The setTimeout callback of the startClient call on c runs: it rejects
\* timeoutPromise, which settles the race unless connect has settled it.
TimerFires(c) ==
  /\ Ready
  /\ timer[c] = "armed"
  /\ timer' = [timer EXCEPT ![c] = "fired"]
  /\ RaceSettles(c, "timeout")
  /\ UNCHANGED <<nextClient, clientId, conn, closeCalls>>
  /\ UNCHANGED transport
  /\ UNCHANGED proc

\* ------------------------------------------------------ POST /restart/:id
\* The handler up to `await clientEntry.client.close()`.
RestartBegin(r, id) ==
  /\ Ready
  /\ req[r].pc = "idle"
  /\ IF ~has(id)
     THEN /\ response' = Reply("restart", id, 404, "Client not found")
          /\ UNCHANGED <<closeCalls, req>>
     ELSE /\ closeCalls[clients[id].client] < MaxCloseCalls
          /\ closeCalls' = [closeCalls EXCEPT ![clients[id].client] = @ + 1]
          /\ req' = [req EXCEPT ![r] =
                [NoReq EXCEPT !.kind = "restart", !.pc = "closing", !.id = id,
                              !.client = clients[id].client,
                              !.closed = clients[id].client,
                              !.config = clients[id].config]]
          /\ response' = NoResponse
  /\ UNCHANGED <<clients, nextClient, clientId, conn, timer, call, task,
                 results>>
  /\ UNCHANGED transport
  /\ UNCHANGED proc

\* close() resolved: clients.delete(id), then startClient(id, config) up to
\* its race.
RestartCloseResolves(r) ==
  /\ Ready
  /\ req[r].kind = "restart" /\ req[r].pc = "closing"
  /\ clients' = MapDelete(clients, req[r].id)
  /\ IF CommandMissing(req[r].config)
     THEN /\ req' = [req EXCEPT ![r] = NoReq]
          /\ response' = Reply("restart", req[r].id, 500, "Command is required")
          /\ UNCHANGED <<nextClient, clientId, transport, conn, timer, call>>
     ELSE /\ nextClient < MaxClients
          /\ nextClient' = nextClient + 1
          /\ clientId' = [clientId EXCEPT ![nextClient + 1] = req[r].id]
          /\ transport' = [transport EXCEPT
                ![nextClient + 1] = TransportOptions(req[r].config)]
          /\ conn' = [conn EXCEPT ![nextClient + 1] = "connecting"]
          /\ timer' = [timer EXCEPT ![nextClient + 1] = "armed"]
          /\ call' = [call EXCEPT ![nextClient + 1] = "pending"]
          /\ req' = [req EXCEPT ![r].pc = "racing", ![r].client = nextClient + 1]
          /\ response' = NoResponse
  /\ UNCHANGED <<closeCalls, task, results>>
  /\ UNCHANGED proc

\* close() rejected: the catch answers 500.
RestartCloseRejects(r) ==
  /\ Ready
  /\ req[r].kind = "restart" /\ req[r].pc = "closing"
  /\ req' = [req EXCEPT ![r] = NoReq]
  /\ response' = Reply("restart", req[r].id, 500, "close failed")
  /\ UNCHANGED <<clients, nextClient, clientId, conn, timer, closeCalls,
                 call, task, results>>
  /\ UNCHANGED transport
  /\ UNCHANGED proc

\* ---------------------------------------------------- DELETE /clients/:id
\* The handler without its `if (!clientEntry)`: reading clientEntry.client
\* throws inside the try, and the catch answers 500.
StopBeginNoLookup(r, id) ==
  /\ Ready
  /\ req[r].pc = "idle"
  /\ IF ~has(id)
     THEN /\ response' = Reply("stop", id, 500, "Failed to delete client")
          /\ UNCHANGED <<closeCalls, req>>
     ELSE /\ closeCalls[clients[id].client] < MaxCloseCalls
          /\ closeCalls' = [closeCalls EXCEPT ![clients[id].client] = @ + 1]
          /\ req' = [req EXCEPT ![r] =
                [NoReq EXCEPT !.kind = "stop", !.pc = "closing", !.id = id,
                              !.client = clients[id].client,
                              !.config = clients[id].config]]
          /\ response' = NoResponse
  /\ UNCHANGED <<clients, nextClient, clientId, conn, timer, call, task,
                 results>>
  /\ UNCHANGED transport
  /\ UNCHANGED proc

\* The handler up to `await clientEntry.client.close()`.
StopBegin(r, id) ==
  /\ Ready
  /\ req[r].pc = "idle"
  /\ IF ~has(id)
     THEN /\ response' = Reply("stop", id, 404, "Client not found")
          /\ UNCHANGED <<closeCalls, req>>
     ELSE /\ closeCalls[clients[id].client] < MaxCloseCalls
          /\ closeCalls' = [closeCalls EXCEPT ![clients[id].client] = @ + 1]
          /\ req' = [req EXCEPT ![r] =
                [NoReq EXCEPT !.kind = "stop", !.pc = "closing", !.id = id,
                              !.client = clients[id].client,
                              !.config = clients[id].config]]
          /\ response' = NoResponse
  /\ UNCHANGED <<clients, nextClient, clientId, conn, timer, call, task,
                 results>>
  /\ UNCHANGED transport
  /\ UNCHANGED proc

\* close() resolved: clients.delete(id) and 200.
StopCloseResolves(r) ==
  /\ Ready
  /\ req[r].kind = "stop" /\ req[r].pc = "closing"
  /\ clients' = MapDelete(clients, req[r].id)
  /\ req' = [req EXCEPT ![r] = NoReq]
  /\ response' = Reply("stop", req[r].id, 200, "")
  /\ UNCHANGED <<nextClient, clientId, conn, timer, closeCalls, call, task,
                 results>>
  /\ UNCHANGED transport
  /\ UNCHANGED proc

\* close() rejected: the catch answers 500.
StopCloseRejects(r) ==
  /\ Ready
  /\ req[r].kind = "stop" /\ req[r].pc = "closing"
  /\ req' = [req EXCEPT ![r] = NoReq]
  /\ response' = Reply("stop", req[r].id, 500, "close failed")
  /\ UNCHANGED <<clients, nextClient, clientId, conn, timer, closeCalls,
                 call, task, results>>
  /\ UNCHANGED transport
  /\ UNCHANGED proc

\* ------------------------------------------- POST /clients/:id/call_tools
\* The handler up to `await clientEntry.client.callTool(...)`.
CallBegin(r, id, name) ==
  /\ Ready
  /\ req[r].pc = "idle"
  /\ IF name = ""
     THEN /\ response' = Reply("call", id, 400, "Tool name is required")
          /\ UNCHANGED req
     ELSE IF ~has(id)
     THEN /\ response' = Reply("call", id, 404, "Client not found")
          /\ UNCHANGED req
     ELSE /\ req' = [req EXCEPT ![r] =
                [NoReq EXCEPT !.kind = "call", !.pc = "calling", !.id = id,
                              !.name = name, !.client = clients[id].client]]
          /\ response' = NoResponse
  /\ UNCHANGED <<clients, nextClient, clientId, conn, timer, closeCalls,
                 call, task, results>>
  /\ UNCHANGED transport
  /\ UNCHANGED proc

\* What client.callTool() may do: resolve with a result, or reject.
CallOutcomes ==
  {[ok |-> TRUE, value |-> "text"], [ok |-> TRUE, value |-> "isError"],
   [ok |-> FALSE, value |-> "callTool failed"]}

\* A handler that answers 200 with a summary of the result.
CallResponseSummarised(id, outcome) ==
  IF outcome.ok THEN [Reply("call", id, 200, "") EXCEPT !.result = "ok"]
  ELSE Reply("call", id, 500, outcome.value)

\* 200 with the result, or 500 with the error's message as details.
CallResponse(id, outcome) ==
  IF outcome.ok THEN [Reply("call", id, 200, "") EXCEPT !.result = outcome.value]
  ELSE Reply("call", id, 500, outcome.value)

\* callTool settled.
CallSettles(r, outcome) ==
  /\ Ready
  /\ req[r].kind = "call" /\ req[r].pc = "calling"
  /\ req' = [req EXCEPT ![r] = NoReq]
  /\ response' = CallResponse(req[r].id, outcome)
  /\ UNCHANGED <<clients, nextClient, clientId, conn, timer, closeCalls,
                 call, task, results>>
  /\ UNCHANGED transport
  /\ UNCHANGED proc

\* ----------------------------------------------------------- GET /clients
\* What client.listTools() may do: resolve with tools, or reject.
ListOutcomes ==
  {[ok |-> TRUE, tools |-> <<"echo", "add">>, message |-> ""],
   [ok |-> FALSE, tools |-> <<>>, message |-> "listTools failed"]}

\* The callback of the listing for one entry up to `await listTools()`: the
\* fields it has read from the entry.
Pending(entry) ==
  [id |-> entry.id, command |-> entry.command, args |-> entry.args,
   createdAt |-> entry.createdAt, client |-> entry.client, state |-> "pending",
   tools |-> <<>>, toolError |-> ""]

\* The object the callback returns (toolError is set in the catch only).
Projection(p, outcome) ==
  [id |-> p.id, command |-> p.command, args |-> p.args,
   createdAt |-> p.createdAt, state |-> IF outcome.ok THEN "ok" ELSE "failed",
   tools |-> IF outcome.ok THEN outcome.tools ELSE <<>>,
   toolError |-> IF outcome.ok THEN "" ELSE outcome.message]

\* A listing that fails as a whole when one listTools() fails.
ListResponseAllOrNothing(list) ==
  IF \E i \in DOMAIN list : list[i].state = "failed"
  THEN Reply("list", "", 500, "Failed to retrieve clients list")
  ELSE [Reply("list", "", 200, "") EXCEPT !.list = list]

\* Promise.all(clientDetailsPromises) resolved: 200 with the projections.
\* (The order of the array, the Map's insertion order, is not modelled.)
ListResponse(list) == [Reply("list", "", 200, "") EXCEPT !.list = list]

\* The handler up to the awaits: one callback per entry of the registry, each
\* calling listTools() on its entry's client.
ListBegin(r) ==
  /\ Ready
  /\ req[r].pc = "idle"
  /\ IF clients = << >>
     THEN /\ response' = ListResponse(<< >>)
          /\ UNCHANGED req
     ELSE /\ req' = [req EXCEPT ![r] =
                [NoReq EXCEPT !.kind = "list", !.pc = "listing",
                   !.list = [i \in DOMAIN clients |-> Pending(clients[i])]]]
          /\ response' = NoResponse
  /\ UNCHANGED <<clients, nextClient, clientId, transport, conn, timer,
                 closeCalls, call, task, results>>
  /\ UNCHANGED proc

\* listTools() of the callback for entry i settles; the handler answers when
\* it was the last.
ListToolsSettles(r, i, outcome) ==
  /\ Ready
  /\ req[r].kind = "list" /\ req[r].pc = "listing"
  /\ i \in DOMAIN req[r].list /\ req[r].list[i].state = "pending"
  /\ LET list == [req[r].list EXCEPT ![i] = Projection(@, outcome)]
     IN IF \A j \in DOMAIN list : list[j].state # "pending"
        THEN /\ req' = [req EXCEPT ![r] = NoReq]
             /\ response' = ListResponse(list)
        ELSE /\ req' = [req EXCEPT ![r].list = list]
             /\ response' = NoResponse
  /\ UNCHANGED <<clients, nextClient, clientId, transport, conn, timer,
                 closeCalls, call, task, results, proc>>

\* ------------------------------------------------- GET /clients/:id/tools
\* The handler up to `await clientEntry.client.listTools()`.
ToolsBegin(r, id) ==
  /\ Ready
  /\ req[r].pc = "idle"
  /\ IF ~has(id)
     THEN /\ response' = Reply("tools", id, 404, "Client not found")
          /\ UNCHANGED req
     ELSE /\ req' = [req EXCEPT ![r] =
                [NoReq EXCEPT !.kind = "tools", !.pc = "querying", !.id = id,
                              !.client = clients[id].client]]
          /\ response' = NoResponse
  /\ UNCHANGED <<clients, nextClient, clientId, transport, conn, timer,
                 closeCalls, call, task, results>>
  /\ UNCHANGED proc

\* listTools() settled: 200 with result.tools, or 500 with the message.
ToolsSettles(r, outcome) ==
  /\ Ready
  /\ req[r].kind = "tools" /\ req[r].pc = "querying"
  /\ req' = [req EXCEPT ![r] = NoReq]
  /\ response' =
       IF outcome.ok
       THEN [Reply("tools", req[r].id, 200, "") EXCEPT !.tools = outcome.tools]
       ELSE Reply("tools", req[r].id, 500, outcome.message)
  /\ UNCHANGED <<clients, nextClient, clientId, transport, conn, timer,
                 closeCalls, call, task, results>>
  /\ UNCHANGED proc

\* ------------------------------------------------------------ res.json()
\* The response a handler wrote has gone out; the callbacks and the results
\* object of an answered /start request are garbage.
ResponseSent ==
  /\ ~Ready
  /\ response' = NoResponse
  /\ task' = [b \in Batches |->
       IF Running(b) THEN task[b] ELSE [i \in Ids |-> NoTask]]
  /\ results' = [b \in Batches |-> IF Running(b) THEN results[b] ELSE NoResults]
  /\ UNCHANGED <<clients, nextClient, clientId, conn, timer, closeCalls, call,
                 req>>
  /\ UNCHANGED transport
  /\ UNCHANGED proc

\* ------------------------------------------------------ the specification
\* The request bodies of /start: a config for each id of a set of ids.
Bodies ==
  UNION {{m \in [S -> Configs] : \A i \in S : m[i] \in ConfigsFor(i)} :
           S \in SUBSET Ids}
CloseOutcomes == {"ok", "reject", "throw"}

\* What the close() calls of a /start request may do, one outcome for each
\* id whose registered client the request closes.
CloseChoices(m) ==
  LET closing == {i \in DOMAIN m : StartCloses(i, m[i])}
  IN {[i \in DOMAIN m |-> IF i \in closing THEN f[i] ELSE "ok"] :
        f \in [closing -> CloseOutcomes]}

Next ==
  \/ \E b \in Batches, m \in Bodies :
       \E co \in CloseChoices(m) :
         BatchStart(b, m, co) /\ nextClient' <= SpecClients
  \/ \E c \in ClientIds, outcome \in {"connected", "rejected"} :
       ConnectSettles(c, outcome)
  \/ \E c \in ClientIds : TimerFires(c)
  \/ \E b \in Batches, i \in Ids : DetachedCloseSettles(b, i)
  \/ \E r \in Reqs, id \in Ids : RestartBegin(r, id)
  \/ \E r \in Reqs : RestartCloseResolves(r) /\ nextClient' <= SpecClients
  \/ \E r \in Reqs : RestartCloseRejects(r)
  \/ \E r \in Reqs, id \in Ids : StopBegin(r, id)
  \/ \E r \in Reqs : StopCloseResolves(r)
  \/ \E r \in Reqs : StopCloseRejects(r)
  \/ \E r \in Reqs, id \in Ids, name \in ToolNames : CallBegin(r, id, name)
  \/ \E r \in Reqs, outcome \in CallOutcomes : CallSettles(r, outcome)
  \/ \E r \in Reqs, id \in Ids : ToolsBegin(r, id)
  \/ \E r \in Reqs, outcome \in ListOutcomes : ToolsSettles(r, outcome)
  \/ \E r \in Reqs : ListBegin(r)
  \/ \E r \in Reqs, i \in Ids, outcome \in ListOutcomes :
       ListToolsSettles(r, i, outcome)
  \/ ResponseSent

Spec == Init /\ [][Next]_vars

\* A written response goes out.  The event loop runs a timer that is due on
\* its next turn, however many requests keep arriving: a timer that could
\* fire again and again does fire.
FairSpec ==
  Spec /\ WF_vars(ResponseSent) /\ \A c \in ClientIds : SF_vars(TimerFires(c))

\* ------------------------------------------------------------------ SIGINT
\* The process has not exited.
Alive == proc.pc # "exited"

\* The module's SIGINT handler at an iteration of its loop over
\* clients.entries(): it calls close() on the next entry of the Map it has not
\* visited and awaits it, or, the iterator being done, calls process.exit(0).
\* (The iterator is live: it also yields entries set during the loop.  Its
\* order, the Map's insertion order, is not modelled: any entry may be
\* next.  A close() that throws at once is handled as one that rejects.)
ShutdownLoop(id, visited) ==
  IF DOMAIN clients \subseteq visited
  THEN /\ proc' = [pc |-> "exited", id |-> "", visited |-> visited]
       /\ UNCHANGED closeCalls
  ELSE /\ id \in DOMAIN clients \ visited
       /\ closeCalls[clients[id].client] < MaxCloseCalls
       /\ closeCalls' = [closeCalls EXCEPT ![clients[id].client] = @ + 1]
       /\ proc' = [pc |-> "closing", id |-> id, visited |-> visited \cup {id}]

\* SIGINT: both handlers run, the module's first (it was registered when the
\* module was loaded), then the one start() registered, which calls
\* server.close(() => process.exit(0)) unless the process has exited.
Sigint(id) ==
  /\ Ready
  /\ proc.pc = "running"
  /\ ShutdownLoop(id, {})
  /\ response' = NoResponse
  /\ UNCHANGED <<clients, nextClient, clientId, transport, conn, timer, call,
                 task, results, req>>

\* The close() the loop is awaiting resolves or rejects: the catch logs the
\* failure, and the loop goes on either way.
ShutdownCloseSettles(id, outcome) ==
  /\ Ready
  /\ proc.pc = "closing"
  /\ outcome \in {"ok", "reject"}
  /\ ShutdownLoop(id, proc.visited)
  /\ response' = NoResponse
  /\ UNCHANGED <<clients, nextClient, clientId, transport, conn, timer, call,
                 task, results, req>>

\* The HTTP server has closed, no request being handled any more: the
\* callback of server.close calls process.exit(0).
ServerClosed ==
  /\ Ready
  /\ proc.pc = "closing"
  /\ \A b \in Batches : ~Running(b)
  /\ \A r \in Reqs : req[r].pc = "idle"
  /\ proc' = [proc EXCEPT !.pc = "exited", !.id = ""]
  /\ response' = NoResponse
  /\ UNCHANGED <<clients, nextClient, clientId, transport, conn, timer,
                 closeCalls, call, task, results, req>>

\* The server takes /start requests one at a time; after SIGINT no request
\* arrives, while connects, timers and closes already under way go on until
\* the process exits.
ShutdownNext ==
  \/ \E m \in Bodies : \E co \in CloseChoices(m) :
       /\ proc.pc = "running"
       /\ BatchStart("b1", m, co) /\ nextClient' <= SpecClients
  \/ \E c \in ClientIds, outcome \in {"connected", "rejected"} :
       Alive /\ ConnectSettles(c, outcome)
  \/ \E c \in ClientIds : Alive /\ TimerFires(c)
  \/ \E b \in Batches, i \in Ids : Alive /\ DetachedCloseSettles(b, i)
  \/ Alive /\ ResponseSent
  \/ \E id \in Ids \cup {""} : Sigint(id)
  \/ \E id \in Ids \cup {""}, outcome \in {"ok", "reject"} :
       ShutdownCloseSettles(id, outcome)
  \/ ServerClosed

ShutdownSpec == Init /\ [][ShutdownNext]_vars

\* The configs whose env the transport's options are checked on: up to two
\* properties, among them a variable the defaults have too, env omitted, and
\* args given or empty.
EnvKeys == {"A", "PATH"}
EnvValues == {"1", "/opt"}
EnvProps == EnvKeys \X EnvValues
EnvLists ==
  {<<>>} \cup {<<p>> : p \in EnvProps}
         \cup {<<pq[1], pq[2]>> :
                 pq \in {x \in EnvProps \X EnvProps : x[1][1] # x[2][1]}}
EnvConfigs ==
  {[command |-> "node", args |-> <<"a", "b">>, env |-> e, omitted |-> {}] :
     e \in EnvLists}
  \cup {[command |-> "node", args |-> <<"a", "b">>, env |-> <<>>,
         omitted |-> {"env"}],
        [command |-> "node", args |-> <<>>, env |-> << <<"A", "1">> >>,
         omitted |-> {}]}
EnvBodies == {[i \in {"s1"} |-> config] : config \in EnvConfigs}

\* One id started, replaced and restarted with each of these configs.
EnvNext ==
  \/ \E m \in EnvBodies : \E co \in CloseChoices(m) :
       BatchStart("b1", m, co) /\ nextClient' <= SpecClients
  \/ \E c \in ClientIds, outcome \in {"connected", "rejected"} :
       ConnectSettles(c, outcome)
  \/ \E c \in ClientIds : TimerFires(c)
  \/ \E b \in Batches, i \in Ids : DetachedCloseSettles(b, i)
  \/ \E r \in Reqs, id \in Ids : RestartBegin(r, id)
  \/ \E r \in Reqs : RestartCloseResolves(r) /\ nextClient' <= SpecClients
  \/ \E r \in Reqs : RestartCloseRejects(r)
  \/ ResponseSent

EnvSpec == Init /\ [][EnvNext]_vars

\* One /start request at a time and /restart, with room for the client of a
\* /start that arrives while a restart is reconnecting; the configs have a
\* command, and s1 is given two that differ.
RestartBodies ==
  {m \in Bodies : \A i \in DOMAIN m :
     m[i] \in (IF i = "s1" THEN {cfgEnv, cfgArgsSwapped} ELSE {cfgEnv})}

RestartNext ==
  \/ \E m \in RestartBodies : \E co \in CloseChoices(m) :
       BatchStart("b1", m, co)
  \/ \E c \in ClientIds, outcome \in {"connected", "rejected"} :
       ConnectSettles(c, outcome)
  \/ \E c \in ClientIds : TimerFires(c)
  \/ \E b \in Batches, i \in Ids : DetachedCloseSettles(b, i)
  \/ \E r \in Reqs, id \in Ids : RestartBegin(r, id)
  \/ \E r \in Reqs : RestartCloseResolves(r)
  \/ \E r \in Reqs : RestartCloseRejects(r)
  \/ ResponseSent

RestartSpec == Init /\ [][RestartNext]_vars

\* ------------------------------------------------------------- the claims
Range(s) == {s[k] : k \in DOMAIN s}

\* Structural equality of two configs: env is a mapping, args a sequence.
StructEq(a, b) ==
  /\ a.command = b.command
  /\ a.args = b.args
  /\ Range(a.env) = Range(b.env)
  /\ a.omitted = b.omitted

\* A live client: connected, and close() never called on it.
Live(c) == conn[c] = "connected" /\ closeCalls[c] = 0

\* The config given to the startClient call that is racing on c.
ConfigOfCall(c) ==
  IF AwaitingTasks(c) # {}
  THEN LET t == CHOOSE t \in AwaitingTasks(c) : TRUE IN task[t[1]][t[2]].config
  ELSE LET r == CHOOSE r \in AwaitingReqs(c) : TRUE IN req[r].config

\* /start request b is still being handled after the step.
RunningAfter(b) == \E i \in Ids : task'[b][i].pc = "racing"

\* The step starts the callback of /start request b for id i.
Starts(b, i) == task[b][i].pc = "none" /\ task'[b][i].pc # "none"

\* C1: in every reachable state there is at most one registry entry per id
\* and at most one live (connected, never closed) client per id.
C1_OneLiveClientPerId ==
  /\ \A i \in DOMAIN clients : clients[i].id = i
  /\ \A i \in Ids : Cardinality({c \in ClientIds : clientId[c] = i /\ Live(c)}) <= 1

\* C2: an entry is inserted or replaced only by the step in which the
\* inserting call's connect succeeds, and a startClient call that fails (no
\* command, connect rejected, timeout) leaves the registry as it was.
C2_RegisterOnlyAfterConnect ==
  [][/\ \A i \in Ids :
          (i \in DOMAIN clients' /\ (~has(i) \/ clients'[i] # clients[i])) =>
            LET c == clients'[i].client
            IN /\ call[c] = "pending" /\ call'[c] = "fulfilled"
               /\ conn[c] = "connecting" /\ conn'[c] = "connected"
               /\ clients' = MapSet(clients, i, Entry(i, c, ConfigOfCall(c)))
     /\ \A c \in ClientIds :
          (call[c] = "pending" /\ call'[c] \in {"rejected", "timeout"}) =>
            clients' = clients
     /\ \A b \in Batches, i \in Ids :
          (Starts(b, i) /\ task'[b][i].pc = "failed") => clients' = clients
    ]_vars

\* C2 witness: a start that was to replace the entry of s1 timed out, and the
\* entry registered before is still the one in the registry.
C2_Witness ==
  /\ response.kind = "start"
  /\ ErrorResult("s1", "Connection timeout") \in Range(response.errors)
  /\ has("s1") /\ clients["s1"].client = 1 /\ call[2] = "timeout"

\* C3: every entry of the registry holds a connected client on which close()
\* has not been called (a stop or restart still awaiting its close() aside).
C3_RegisteredClientsOpen ==
  \A i \in DOMAIN clients :
    LET c == clients[i].client
    IN /\ conn[c] = "connected"
       /\ closeCalls[c] > 0 =>
            \E r \in Reqs : req[r].pc = "closing" /\ req[r].client = c

\* C4: a start for an id whose registered config is structurally equal to the
\* given one returns at once: it leaves the registry unchanged, calls close()
\* on no client of the id, constructs no client for it and reports nothing.
C4_IdempotentStart ==
  [][\A b \in Batches, i \in Ids :
       (Starts(b, i) /\ has(i)
          /\ StructEq(clients[i].config, task'[b][i].config)) =>
         /\ task'[b][i].pc = "noop"
         /\ clients' = clients
         /\ \A c \in ClientIds :
              /\ clientId[c] = i => closeCalls'[c] = closeCalls[c]
              /\ clientId'[c] = i =>
                   clientId[c] = i /\ conn'[c] = conn[c] /\ call'[c] = call[c]
         /\ \A e \in Range(results'[b].success) \cup Range(results'[b].errors) :
              e.id # i
    ]_vars

\* C4 witness: a /start request still running whose callback for s1 returned
\* at once, its config having the env keys of the registered one in another
\* order; the registered client was not closed.
C4_Witness ==
  \E b \in Batches :
    /\ task[b]["s1"].pc = "noop" /\ has("s1")
    /\ task[b]["s1"].config # clients["s1"].config
    /\ closeCalls[clients["s1"].client] = 0

\* C5: a start for a registered id with a different config (and a command)
\* calls close() once on the registered client and goes on to connect a new
\* client whatever that close() does; when that connect succeeds the entry of
\* the id is the new client with the new config.
C5_ReplaceOnChange ==
  [][/\ \A b \in Batches, i \in Ids :
          (Starts(b, i) /\ has(i)
             /\ ~StructEq(clients[i].config, task'[b][i].config)
             /\ ~CommandMissing(task'[b][i].config)) =>
            /\ closeCalls'[clients[i].client] = closeCalls[clients[i].client] + 1
            /\ task'[b][i].pc = "racing"
            /\ call[task'[b][i].client] = "none"
     /\ \A c \in ClientIds :
          (AwaitingTasks(c) # {} /\ conn'[c] = "connected") =>
            /\ clientId[c] \in DOMAIN clients'
            /\ clients'[clientId[c]] = Entry(clientId[c], c, ConfigOfCall(c))
    ]_vars

\* C6: when stop has answered, with 200 or (close() having thrown) with 500,
\* the registry has no entry for its id.
C6_StopClearsRegistry ==
  (response.kind = "stop" /\ response.status \in {200, 500}) => ~has(response.id)

\* C7: a restart that has called close() goes on, whatever close() does, to
\* remove the old entry and to start a client with the stored config.
C7_RestartCloseBestEffort ==
  [][\A r \in Reqs :
       (req[r].kind = "restart" /\ req[r].pc = "closing" /\ req'[r] # req[r]) =>
         /\ req'[r].pc = "racing" /\ req'[r].config = req[r].config
         /\ \A i \in DOMAIN clients' : clients'[i].client # req[r].client
    ]_vars

\* What C8 says of a request for an unknown id: 404, no call on any client,
\* the registry unchanged.
C8_Rejected(status) ==
  /\ response'.status = status
  /\ UNCHANGED <<clients, nextClient, clientId, transport, conn, timer,
                 closeCalls, call, task, results, req, proc>>

\* C8 as stated: restart, stop and call_tools (with any tool name) on an id
\* that has no entry answer 404, call no client and leave the registry as is.
C8_UnknownIdNotFound ==
  [][\A r \in Reqs, id \in Ids :
       ~has(id) =>
         /\ RestartBegin(r, id) => C8_Rejected(404)
         /\ StopBegin(r, id) => C8_Rejected(404)
         /\ \A name \in ToolNames : CallBegin(r, id, name) => C8_Rejected(404)
    ]_vars

\* C8 amended: restart, stop and call_tools with a non-empty tool name on an
\* id that has no entry answer 404; call_tools with an empty tool name answers
\* 400; all of them call no client and leave the registry as it is.
C8_UnknownIdRejected ==
  [][\A r \in Reqs, id \in Ids :
       ~has(id) =>
         /\ RestartBegin(r, id) => C8_Rejected(404)
         /\ StopBegin(r, id) => C8_Rejected(404)
         /\ \A name \in ToolNames :
              CallBegin(r, id, name) => C8_Rejected(IF name = "" THEN 400 ELSE 404)
    ]_vars

\* C8 witness: call_tools was answered 404 for an id that has no entry while
\* another id is registered.
C8_Witness ==
  /\ response.kind = "call" /\ response.status = 404
  /\ ~has(response.id) /\ clients # << >>

\* C9: the callback of one id of a /start request settles without touching
\* the entry or the callback of any other id and without dropping a result
\* already collected; if it fails its id is in errors, if it succeeds its id
\* is registered and in success; and a request starts each of its ids
\* whatever its other ids are given: an id without command is in errors, an
\* unregistered id with a command gets a client connecting.
C9_BatchIsolation ==
  [][/\ \A c \in ClientIds :
          (AwaitingTasks(c) # {} /\ call'[c] # "pending") =>
            LET t == CHOOSE t \in AwaitingTasks(c) : TRUE
                b == t[1]
                i == t[2]
            IN /\ \A j \in Ids \ {i} :
                    /\ j \in DOMAIN clients' <=> has(j)
                    /\ has(j) => clients'[j] = clients[j]
                    /\ task'[b][j] = task[b][j]
               /\ Range(results[b].success) \subseteq Range(results'[b].success)
               /\ Range(results[b].errors) \subseteq Range(results'[b].errors)
               /\ IF call'[c] = "fulfilled"
                  THEN /\ i \in DOMAIN clients' /\ clients'[i].client = c
                       /\ SuccessResult(i) \in Range(results'[b].success)
                       /\ results'[b].errors = results[b].errors
                  ELSE /\ \E e \in Range(results'[b].errors)
                                    \ Range(results[b].errors) : e.id = i
                       /\ results'[b].success = results[b].success
                       /\ clients' = clients
     /\ \A b \in Batches, i \in Ids :
          Starts(b, i) =>
            /\ (CommandMissing(task'[b][i].config) /\ task'[b][i].pc # "noop") =>
                 \E e \in Range(results'[b].errors) : e.id = i
            /\ (~CommandMissing(task'[b][i].config) /\ ~has(i)) =>
                 /\ task'[b][i].pc = "racing"
                 /\ call[task'[b][i].client] = "none"
                 /\ call'[task'[b][i].client] = "pending"
     /\ \A b \in Batches :
          (Ready /\ ~RunningAfter(b) /\ \E i \in Ids : task'[b][i].pc # "none") =>
            /\ response'.kind = "start"
            /\ response'.success = results'[b].success
            /\ response'.errors = results'[b].errors
    ]_vars

\* C9 witness: a /start request for two ids answered 400 with s1 in success
\* and registered and s2, which had no command, in errors.
C9_Witness ==
  /\ response.kind = "start" /\ response.status = 400
  /\ response.success = <<SuccessResult("s1")>>
  /\ response.errors = <<ErrorResult("s2", "Command is required")>>
  /\ has("s1") /\ ~has("s2")

\* C10: a startClient call whose race is pending eventually leaves it, by
\* the timer at the latest; it fails with the timeout error only when its
\* timer has fired, a connect still unsettled when the call ended means the
\* call timed out, and the client of a call that timed out is never in the
\* registry, also after its connect completed.
C10_TimeoutBound ==
  /\ [](\A c \in ClientIds :
          /\ call[c] = "timeout" =>
               /\ timer[c] = "fired"
               /\ \A i \in DOMAIN clients : clients[i].client # c
          /\ timer[c] = "fired" => call[c] # "pending"
          /\ (call[c] \notin {"none", "pending"} /\ conn[c] = "connecting") =>
               call[c] = "timeout")
  /\ [][\A c \in ClientIds :
          (call[c] = "pending" /\ call'[c] = "timeout") =>
            \/ ErrorResult(clientId[c], "Connection timeout")
                 \in UNION {Range(results'[b].errors) : b \in Batches}
            \/ response' = Reply("restart", clientId[c], 500, "Connection timeout")
       ]_vars
  /\ \A c \in ClientIds : (call[c] = "pending") ~> (call[c] # "pending")

\* C10 witness: the call on a client timed out, the abandoned connect
\* completed afterwards, and the client is in no entry.
C10_Witness ==
  \E c \in ClientIds :
    /\ call[c] = "timeout" /\ conn[c] = "connected"
    /\ \A i \in DOMAIN clients : clients[i].client # c

\* C11: a restart works on the entry and config stored when it began; once
\* close() on the old client has resolved it connects a client constructed
\* anew with that config; and when it answers 200 the registry holds for its
\* id the entry of that new, connected client with that same config.
C11_RestartPreservesConfig ==
  [][\A r \in Reqs :
       /\ (req[r].pc = "idle" /\ req'[r].kind = "restart") =>
            /\ has(req'[r].id)
            /\ req'[r].config = clients[req'[r].id].config
            /\ req'[r].client = clients[req'[r].id].client
       /\ (req[r].kind = "restart" /\ req[r].pc = "closing"
             /\ req'[r].pc = "racing") =>
            /\ closeCalls[req[r].client] >= 1
            /\ req'[r].id = req[r].id /\ req'[r].config = req[r].config
            /\ req'[r].client # req[r].client
            /\ conn[req'[r].client] = "new"
            /\ conn'[req'[r].client] = "connecting"
       /\ (req[r].kind = "restart"
             /\ response'.kind = "restart" /\ response'.status = 200) =>
            /\ req[r].pc = "racing"
            /\ conn'[req[r].client] = "connected"
            /\ DOMAIN clients' = DOMAIN clients \cup {req[r].id}
            /\ clients'[req[r].id] = Entry(req[r].id, req[r].client, req[r].config)
    ]_vars

\* C11 witness: a restart of s1 answered 200; the entry of s1 holds the second
\* client with the config it was first started with, the first one is closed.
C11_Witness ==
  /\ response.kind = "restart" /\ response.status = 200 /\ response.id = "s1"
  /\ has("s1") /\ clients["s1"].client = 2 /\ clients["s1"].config = cfgEnvReordered
  /\ clientId[1] = "s1" /\ closeCalls[1] = 1 /\ conn[2] = "connected"

\* What C12 says of the transport made for a call with the given config.
C12_Options(options, config) ==
  /\ options.command = config.command
  /\ options.args = config.args
  /\ IF config.env = <<>>
     THEN ~options.hasEnv
     ELSE /\ options.hasEnv
          /\ Range(options.env) =
               Range(config.env) \cup
               {p \in Range(getDefaultEnvironment) :
                  \A q \in Range(config.env) : q[1] # p[1]}
          /\ \A j, k \in DOMAIN options.env :
               options.env[j][1] = options.env[k][1] => j = k

\* C12: the transport of every client a start or a restart constructs gets
\* the command and args of the config, no env when the config's env is empty
\* or omitted, and otherwise the default environment with the caller's
\* properties added, the caller's value standing for a key both have.
C12_EnvMerge ==
  [][/\ \A b \in Batches, i \in Ids :
          (Starts(b, i) /\ task'[b][i].pc = "racing") =>
            C12_Options(transport'[task'[b][i].client], task'[b][i].config)
     /\ \A r \in Reqs :
          (req[r].pc = "closing" /\ req'[r].pc = "racing") =>
            C12_Options(transport'[req'[r].client], req[r].config)
    ]_vars

\* C12 witness: a client whose config gave PATH and A: its transport has the
\* caller's PATH, the default HOME and the caller's A.
C12_Witness ==
  \E c \in ClientIds :
    /\ conn[c] = "connecting"
    /\ transport[c].env =
         << <<"HOME", "/root">>, <<"PATH", "/opt">>, <<"A", "1">> >>

\* The fields a projection of the listing takes from a registry entry.
C13_Of(p, entry) ==
  /\ p.id = entry.id /\ p.command = entry.command
  /\ p.args = entry.args /\ p.createdAt = entry.createdAt

\* C13: a listing takes one projection per entry of the registry, with the
\* entry's id, command, args and createdAt; a listTools() that fails gives its
\* entry an error field and no tools, one that succeeds gives the tool names,
\* and neither touches the other projections; the listing answers 200 with
\* all of them once every query has settled, and the registry is unchanged.
C13_ListingIsolatesFailures ==
  [][\A r \in Reqs :
       /\ (req[r].pc = "idle" /\ req'[r].kind = "list") =>
            /\ DOMAIN req'[r].list = DOMAIN clients
            /\ \A i \in DOMAIN clients :
                 /\ C13_Of(req'[r].list[i], clients[i])
                 /\ req'[r].list[i].state = "pending"
            /\ clients' = clients
       /\ (req[r].pc = "idle" /\ response'.kind = "list") =>
            /\ clients = << >> /\ response'.list = << >>
            /\ response'.status = 200 /\ clients' = clients
       /\ (req[r].kind = "list" /\ req'[r] # req[r]) =>
            LET before == req[r].list
                after == IF req'[r].kind = "list" THEN req'[r].list
                         ELSE response'.list
                done == \A i \in DOMAIN after : after[i].state # "pending"
            IN /\ DOMAIN after = DOMAIN before
               /\ \A i \in DOMAIN before :
                    /\ C13_Of(after[i], before[i])
                    /\ before[i].state # "pending" =>
                         /\ after[i].state = before[i].state
                         /\ after[i].tools = before[i].tools
                         /\ after[i].toolError = before[i].toolError
                    /\ after[i].state = "failed" =>
                         after[i].tools = <<>> /\ after[i].toolError # ""
                    /\ after[i].state = "ok" =>
                         after[i].tools # <<>> /\ after[i].toolError = ""
               /\ Cardinality({i \in DOMAIN before :
                                 after[i].state # before[i].state}) = 1
               /\ done <=> (response'.kind = "list" /\ response'.status = 200)
               /\ ~done => response' = NoResponse
               /\ clients' = clients
    ]_vars

\* C13 witness: a listing of two entries answered 200 with the tools of s2
\* and, for s1, whose query failed, the error and the entry's own fields.
C13_Witness ==
  /\ response.kind = "list" /\ response.status = 200
  /\ DOMAIN response.list = {"s1", "s2"}
  /\ response.list["s1"].state = "failed"
  /\ response.list["s1"].toolError = "listTools failed"
  /\ response.list["s1"].command = "node"
  /\ response.list["s2"].state = "ok"
  /\ response.list["s2"].tools = <<"echo", "add">>

\* C14: call_tools with a tool name on a registered id makes one callTool
\* on the client of the id's entry and answers when it settles: 200 with the
\* result as the client gave it, or 500 with the client's message; with an
\* empty name it answers 400 and calls nothing; the registry is never changed.
C14_InvokeTool ==
  [][\A r \in Reqs :
       /\ \A id \in Ids, name \in ToolNames :
            (has(id) /\ CallBegin(r, id, name)) =>
              /\ clients' = clients
              /\ IF name = ""
                 THEN /\ response'.status = 400
                      /\ response'.error = "Tool name is required"
                      /\ req' = req
                 ELSE /\ response' = NoResponse
                      /\ req'[r].kind = "call" /\ req'[r].pc = "calling"
                      /\ req'[r].client = clients[id].client
                      /\ req'[r].name = name
                      /\ \A q \in Reqs \ {r} : req'[q] = req[q]
       /\ \A outcome \in CallOutcomes :
            CallSettles(r, outcome) =>
              /\ clients' = clients
              /\ req'[r].pc = "idle"
              /\ response'.kind = "call" /\ response'.id = req[r].id
              /\ IF outcome.ok
                 THEN response'.status = 200 /\ response'.result = outcome.value
                 ELSE response'.status = 500 /\ response'.error = outcome.value
    ]_vars

\* C14 witness: call_tools on the registered s1 was answered 200 with the
\* second of the results a client may give.
C14_Witness ==
  /\ response.kind = "call" /\ response.status = 200 /\ response.id = "s1"
  /\ response.result = "isError" /\ has("s1")

\* No /start, restart or stop is being handled.
Quiescent ==
  /\ Ready
  /\ \A b \in Batches : ~Running(b)
  /\ \A r \in Reqs : req[r].kind \notin {"restart", "stop"}

\* C15: when no lifecycle call is in flight, every client whose connect
\* succeeded is the client of the registry's entry for its id or has had
\* close() called on it.
C15_NoResourceLeak ==
  Quiescent =>
    \A c \in ClientIds :
      conn[c] = "connected" =>
        \/ has(clientId[c]) /\ clients[clientId[c]].client = c
        \/ closeCalls[c] >= 1

\* C16: when a client begins connecting for an id the registry holds no entry
\* for that id (the old one has been removed), and an entry is never
\* overwritten in place: an id that has an entry keeps it or loses it.
C16_CloseThenRecreate ==
  [][/\ \A c \in ClientIds :
          (conn[c] = "new" /\ conn'[c] = "connecting") =>
            clientId'[c] \notin DOMAIN clients'
     /\ \A i \in DOMAIN clients :
          i \in DOMAIN clients' => clients'[i] = clients[i]
    ]_vars

\* C17: when the callback of a start that called close() on the old client
\* registers its new entry, that close() has completed: its promise has
\* resolved or rejected.
C17_CloseBeforeRegister ==
  [][\A b \in Batches, i \in Ids :
       (task[b][i].pc = "racing" /\ task'[b][i].pc = "ok"
          /\ task[b][i].closed # 0) =>
         task[b][i].close \in {"resolved", "rejected"}
    ]_vars

\* The requests that only read the registry.
C18_Reads == {"list", "tools", "call"}

\* C18: in every step, an id gains an entry only in the step in which a
\* startClient call for that id (of /start or of a restart) ends with its
\* connect succeeded; an id loses its entry only in the step of a stop for
\* that id that answers 200 or in the removal step of a restart for that id;
\* and no step of a listing, a tools query or a tool call changes the
\* registry.
C18_RegistryProvenance ==
  [][/\ \A i \in Ids :
          /\ (~has(i) /\ i \in DOMAIN clients') =>
               \E c \in ClientIds :
                 /\ clientId[c] = i /\ clients'[i].client = c
                 /\ call[c] = "pending" /\ call'[c] = "fulfilled"
                 /\ \/ \E b \in Batches :
                         task[b][i].pc = "racing" /\ task[b][i].client = c
                           /\ task'[b][i].pc = "ok"
                    \/ \E r \in Reqs :
                         req[r].kind = "restart" /\ req[r].pc = "racing"
                           /\ req[r].client = c /\ req[r].id = i
                           /\ response'.kind = "restart"
                           /\ response'.status = 200
          /\ (has(i) /\ i \notin DOMAIN clients') =>
               \E r \in Reqs :
                 /\ req[r].pc = "closing" /\ req[r].id = i
                 /\ \/ req[r].kind = "stop" /\ response'.kind = "stop"
                         /\ response'.status = 200
                    \/ req[r].kind = "restart" /\ req'[r] # req[r]
     /\ \A r \in Reqs :
          (\/ req[r].kind \in C18_Reads /\ req'[r] # req[r]
           \/ req[r].pc = "idle" /\ req'[r].kind \in C18_Reads
           \/ response'.kind \in C18_Reads) =>
            clients' = clients
    ]_vars

\* C18 witness: a stop of one id answered 200 and removed its entry while the
\* other id keeps the entry a /start gave it.
C18_Witness ==
  /\ response.kind = "stop" /\ response.status = 200
  /\ ~has(response.id) /\ clients # << >>

\* C19: when the connect of a /start call succeeds while another /start call
\* for the same id is still connecting or has registered its entry during
\* this call, the entry of the id becomes the one of the call that has just
\* completed: its client and its config, whatever entry was there.
C19_LastWriteWins ==
  [][\A c \in ClientIds, d \in ClientIds :
       (/\ c # d /\ clientId[c] = clientId[d]
        /\ AwaitingTasks(c) # {}
        /\ call[c] = "pending" /\ call'[c] = "fulfilled"
        /\ call[d] \in {"pending", "fulfilled"}) =>
         /\ clientId[c] \in DOMAIN clients'
         /\ clients'[clientId[c]].client = c
         /\ clients'[clientId[c]].config = ConfigOfCall(c)
         /\ call'[d] = call[d]
    ]_vars

\* C19 witness: two /start calls for s1 with different configs overlapped,
\* neither closing anything; the second client connected first and the first
\* client last, and the entry is the first client's with its config.
C19_Witness ==
  /\ clientId[1] = "s1" /\ clientId[2] = "s1"
  /\ call[1] = "fulfilled" /\ call[2] = "fulfilled"
  /\ closeCalls[1] = 0 /\ closeCalls[2] = 0
  /\ transport[1] = TransportOptions(cfgArgsSwapped)
  /\ transport[2] = TransportOptions(cfgEnv)
  /\ has("s1") /\ clients["s1"].client = 1
  /\ clients["s1"].config = cfgArgsSwapped

\* C20: when the process has exited on SIGINT, close() has been attempted by
\* the shutdown on every entry of the registry.
C20_ShutdownClosesEverything ==
  proc.pc = "exited" => DOMAIN clients \subseteq proc.visited

\* C21: a stop or restart whose close() has settled does not remove an entry
\* other than the one it read: if the id's entry is by then the entry of
\* another client, it stays as it is.
C21_RemoveOnlyLookedUp ==
  [][\A r \in Reqs :
       (/\ req[r].kind \in {"stop", "restart"} /\ req[r].pc = "closing"
        /\ req'[r] # req[r]
        /\ has(req[r].id) /\ clients[req[r].id].client # req[r].client) =>
         /\ req[r].id \in DOMAIN clients'
         /\ clients'[req[r].id] = clients[req[r].id]
    ]_vars


\* /restart request r is awaiting its startClient call, whose race fails in
\* this step.
RestartFails(r) ==
  /\ req[r].kind = "restart" /\ req[r].pc = "racing"
  /\ req'[r] = NoReq
  /\ call'[req[r].client] \in {"rejected", "timeout"}

IdsOf(list) == {list[k].id : k \in DOMAIN list}

\* C23: /start answers only when the callback of every id of its body has
\* returned; in the answer no id is in both success and errors or twice in
\* either, the ids that started are exactly those of success, the ids that
\* failed exactly those of errors, an id whose config was identical is in
\* neither, and the status is 201 if and only if errors is empty.
C23_BatchAccounting ==
  [][response'.kind = "start" =>
       /\ Cardinality(IdsOf(response'.success)) = Len(response'.success)
       /\ Cardinality(IdsOf(response'.errors)) = Len(response'.errors)
       /\ IdsOf(response'.success) \cap IdsOf(response'.errors) = {}
       /\ (response'.status = 201) = (response'.errors = <<>>)
       /\ response'.status \in {201, 400}
       /\ \A b \in Batches : task'[b] # task[b] =>
            \A i \in Ids :
              /\ task'[b][i].pc # "racing"
              /\ (task'[b][i].pc = "ok") = (i \in IdsOf(response'.success))
              /\ (task'[b][i].pc = "failed") = (i \in IdsOf(response'.errors))
              /\ task'[b][i].pc \in {"noop", "none"} =>
                   i \notin IdsOf(response'.success) \cup IdsOf(response'.errors)
    ]_vars

\* A /start for two ids has answered 400 with one id in each list.
C23_Witness ==
  /\ response.kind = "start" /\ response.status = 400
  /\ Len(response.success) = 1 /\ Len(response.errors) = 1
  /\ \E b \in Batches : \A i \in Ids : task[b][i].pc \in {"ok", "failed"}


\* C24: no step cancels an armed timer, and when the timer of a client fires
\* after the client's connect has won the race and the client is registered,
\* only the timer changes: the entry stays as it is, close() is not called,
\* the startClient call stays fulfilled, and no request is answered or
\* failed.
C24_LateTimerHarmless ==
  [][\A c \in ClientIds :
       /\ timer[c] = "armed" => timer'[c] \in {"armed", "fired"}
       /\ (/\ timer[c] = "armed" /\ timer'[c] = "fired"
           /\ call[c] = "fulfilled"
           /\ has(clientId[c]) /\ clients[clientId[c]].client = c) =>
            /\ clients' = clients
            /\ closeCalls' = closeCalls /\ conn' = conn
            /\ call' = call
            /\ task' = task /\ results' = results /\ req' = req
            /\ response' = NoResponse
    ]_vars

\* The timer of a registered, connected and never closed client has fired.
C24_Witness ==
  \E c \in ClientIds :
    /\ timer[c] = "fired" /\ call[c] = "fulfilled" /\ conn[c] = "connected"
    /\ has(clientId[c]) /\ clients[clientId[c]].client = c
    /\ closeCalls[c] = 0

====
